---- MODULE Spec2Model ----
(***************************************************************************)
(* Model of encrypted_fields/fields.py: the key list derived from the      *)
(* settings, the envelope codec (encrypt_value / decrypt_value), the       *)
(* scalar field read/write path, the form-cleaning marker and the          *)
(* recursive walk of EncryptedJSONField.                                   *)
(*                                                                         *)
(* Text is a sequence of code points, bytes are sequences of 0..255.       *)
(* The standard-library and library calls the code makes (UTF-8, URL-safe  *)
(* base64, PBKDF2, AES-GCM) are modelled by what they compute on bytes;    *)
(* PBKDF2 and AES-GCM are replaced by small arithmetic functions that keep *)
(* their interface: a deterministic 32-byte key per (secret, salt), a      *)
(* sealed output of len(plaintext) + 16 bytes, and an open that fails on a *)
(* bad nonce length, a short input or a tag mismatch.                      *)
(***************************************************************************)
EXTENDS Integers, Sequences, FiniteSets, TLC

\* ------------------------------------------------------------------ bounds

\* number of distinct values os.urandom(12) can return in the model
NumNonces == 2
\* longest list of fallback secrets in the generated configurations
MaxFallbacks == 2
\* longest list of salts in the generated configurations
MaxSalts == 3

\* ------------------------------------------------------- program constants

NonceLen == 12
KeyLen == 32
TagLen == 16
MinNonceLen == 8
MaxNonceLen == 128

\* ------------------------------------------------------------ byte helpers

RECURSIVE SumSeq(_)
SumSeq(s) == IF s = <<>> THEN 0 ELSE Head(s) + SumSeq(Tail(s))

RECURSIVE WSum(_, _)
WSum(s, w) == IF s = <<>> THEN 0 ELSE Head(s) * w + WSum(Tail(s), w + 1)

Take(s, n) == SubSeq(s, 1, IF n < Len(s) THEN n ELSE Len(s))
Drop(s, n) == SubSeq(s, n + 1, Len(s))

\* result of a call: a returned value or a raised exception
Ok(v) == [ok |-> TRUE, val |-> v, exc |-> "none"]
Raise(e) == [ok |-> FALSE, val |-> <<>>, exc |-> e]

\* ------------------------------------------------------------------- UTF-8

\* str.encode("utf-8") of one code point (1, 2 and 3 byte forms)
Utf8Char(c) ==
    IF c < 128 THEN <<c>>
    ELSE IF c < 2048 THEN <<192 + (c \div 64), 128 + (c % 64)>>
    ELSE <<224 + (c \div 4096), 128 + ((c \div 64) % 64), 128 + (c % 64)>>

RECURSIVE Utf8Encode(_)
Utf8Encode(t) ==
    IF t = <<>> THEN <<>> ELSE Utf8Char(Head(t)) \o Utf8Encode(Tail(t))

IsCont(b) == b >= 128 /\ b < 192

\* bytes.decode("utf-8"): Ok(text) or Raise("UnicodeDecodeError")
RECURSIVE Utf8DecodeFrom(_, _)
Utf8DecodeFrom(b, acc) ==
    IF b = <<>> THEN Ok(acc)
    ELSE IF b[1] < 128 THEN Utf8DecodeFrom(Tail(b), Append(acc, b[1]))
    ELSE IF b[1] >= 194 /\ b[1] < 224 /\ Len(b) >= 2 /\ IsCont(b[2])
        THEN Utf8DecodeFrom(Drop(b, 2),
                            Append(acc, (b[1] - 192) * 64 + (b[2] - 128)))
    ELSE IF b[1] >= 224 /\ b[1] < 240 /\ Len(b) >= 3 /\ IsCont(b[2]) /\ IsCont(b[3])
            /\ (b[1] - 224) * 4096 + (b[2] - 128) * 64 + (b[3] - 128) >= 2048
        THEN Utf8DecodeFrom(Drop(b, 3),
                 Append(acc, (b[1] - 224) * 4096 + (b[2] - 128) * 64 + (b[3] - 128)))
    ELSE Raise("UnicodeDecodeError")

Utf8Decode(b) == Utf8DecodeFrom(b, <<>>)

\* ------------------------------------------------------------------ base64

PadChar == 61

\* the URL-safe alphabet: A-Z a-z 0-9 - _
B64Char(v) ==
    IF v < 26 THEN 65 + v
    ELSE IF v < 52 THEN 97 + (v - 26)
    ELSE IF v < 62 THEN 48 + (v - 52)
    ELSE IF v = 62 THEN 45
    ELSE 95

\* the decode table after urlsafe_b64decode's translation of - _ to + /
\* (a literal + or / stays valid); 64 marks a byte outside the alphabet
B64Val(c) ==
    IF c >= 65 /\ c <= 90 THEN c - 65
    ELSE IF c >= 97 /\ c <= 122 THEN c - 97 + 26
    ELSE IF c >= 48 /\ c <= 57 THEN c - 48 + 52
    ELSE IF c = 45 \/ c = 43 THEN 62
    ELSE IF c = 95 \/ c = 47 THEN 63
    ELSE 64

\* base64.urlsafe_b64encode(bytes).decode("utf-8"): text of 4 chars per 3 bytes
RECURSIVE B64Encode(_)
B64Encode(b) ==
    IF b = <<>> THEN <<>>
    ELSE IF Len(b) = 1 THEN
        <<B64Char(b[1] \div 4), B64Char((b[1] % 4) * 16), PadChar, PadChar>>
    ELSE IF Len(b) = 2 THEN
        <<B64Char(b[1] \div 4), B64Char((b[1] % 4) * 16 + (b[2] \div 16)),
          B64Char((b[2] % 16) * 4), PadChar>>
    ELSE
        <<B64Char(b[1] \div 4), B64Char((b[1] % 4) * 16 + (b[2] \div 16)),
          B64Char((b[2] % 16) * 4 + (b[3] \div 64)), B64Char(b[3] % 64)>>
          \o B64Encode(Drop(b, 3))

\* binascii.a2b_base64 in its default non-strict mode, one input byte: a
\* byte outside the alphabet is skipped, a complete pad sequence ends the
\* parse (done), every other pad is skipped.
B64Step(st, c) ==
    IF c = PadChar THEN
        IF st.quad >= 2 /\ st.quad + st.pads + 1 >= 4 THEN [st EXCEPT !.done = TRUE]
        ELSE IF st.quad >= 2 THEN [st EXCEPT !.pads = @ + 1]
        ELSE st
    ELSE IF B64Val(c) >= 64 THEN st
    ELSE IF st.quad = 0 THEN
        [st EXCEPT !.quad = 1, !.left = B64Val(c), !.pads = 0]
    ELSE IF st.quad = 1 THEN
        [st EXCEPT !.quad = 2, !.left = B64Val(c) % 16, !.pads = 0,
                   !.out = Append(@, st.left * 4 + (B64Val(c) \div 16))]
    ELSE IF st.quad = 2 THEN
        [st EXCEPT !.quad = 3, !.left = B64Val(c) % 4, !.pads = 0,
                   !.out = Append(@, st.left * 16 + (B64Val(c) \div 4))]
    ELSE
        [st EXCEPT !.quad = 0, !.left = 0, !.pads = 0,
                   !.out = Append(@, st.left * 64 + B64Val(c))]

\* the loop of a2b_base64 over the input
RECURSIVE B64Loop(_, _, _)
B64Loop(s, i, st) ==
    IF i > Len(s) \/ st.done THEN st ELSE B64Loop(s, i + 1, B64Step(st, s[i]))

\* a2b_base64: a group left open at the end of the input is an error
B64Scan(s) ==
    LET st == B64Loop(s, 1, [quad |-> 0, left |-> 0, pads |-> 0, out |-> <<>>,
                             done |-> FALSE])
    IN  IF ~st.done /\ st.quad # 0 THEN Raise("binascii.Error") ELSE Ok(st.out)

\* base64.urlsafe_b64decode(text.encode("utf-8"))
B64Decode(t) == B64Scan(Utf8Encode(t))

\* ------------------------------------------------------------ PBKDF2, GCM

\* PBKDF2HMAC(SHA256, length=32, salt, iterations=100_000).derive(password)
Derive(password, salt) ==
    [i \in 1..KeyLen |->
        (WSum(password, i) + 7 * WSum(salt, i + 1)
           + 13 * Len(password) + 29 * Len(salt) + i) % 256]

At(s, i) == s[((i - 1) % Len(s)) + 1]

GcmTag(key, nonce, ct) ==
    [j \in 1..TagLen |->
        (key[j] + 3 * key[j + TagLen] + At(nonce, j) + SumSeq(ct) + j * Len(ct)) % 256]

\* AESGCM(key).encrypt(nonce, data, None): ciphertext followed by the tag
GcmSeal(key, nonce, data) ==
    LET ct == [i \in 1..Len(data) |-> (data[i] + At(key, i) + At(nonce, i)) % 256]
    IN  ct \o GcmTag(key, nonce, ct)

\* AESGCM(key).decrypt(nonce, data, None)
GcmOpen(key, nonce, data) ==
    IF Len(nonce) < MinNonceLen \/ Len(nonce) > MaxNonceLen THEN Raise("ValueError")
    ELSE IF Len(data) < TagLen THEN Raise("InvalidTag")
    ELSE LET ct == Take(data, Len(data) - TagLen)
             tag == Drop(data, Len(data) - TagLen)
         IN  IF tag # GcmTag(key, nonce, ct) THEN Raise("InvalidTag")
             ELSE Ok([i \in 1..Len(ct) |->
                        (ct[i] + 512 - At(key, i) - At(nonce, i)) % 256])

\* ------------------------------------------------------------------ values

\* Python values, one record shape for all: t is the type, s the text of a
\* str (code points), the decimal digits of a non-negative int (of any
\* size) or the 0 / 1 of a bool, keys and items the contents of a dict (in
\* insertion order) or a list.
None_ == [t |-> "none", s |-> <<>>, keys |-> <<>>, items |-> <<>>]
StrV(text) == [t |-> "str", s |-> text, keys |-> <<>>, items |-> <<>>]
IntV(digits) == [t |-> "int", s |-> digits, keys |-> <<>>, items |-> <<>>]
BoolV(b) == [t |-> "bool", s |-> <<IF b THEN 1 ELSE 0>>, keys |-> <<>>, items |-> <<>>]
ListV(items) == [t |-> "list", s |-> <<>>, keys |-> <<>>, items |-> items]
DictV(keys, items) == [t |-> "dict", s |-> <<>>, keys |-> keys, items |-> items]

\* a value returned by a method, or the exception it raised
RetV(v) == [ok |-> TRUE, val |-> v, exc |-> "none"]
RaiseV(e) == [ok |-> FALSE, val |-> None_, exc |-> e]

\* str(int): the characters of the decimal digits
DigitText(digits) == [i \in 1..Len(digits) |-> 48 + digits[i]]

\* str(value) of a scalar
Str(v) ==
    IF v.t = "str" THEN v.s
    ELSE IF v.t = "int" THEN DigitText(v.s)
    ELSE IF v.t = "bool" THEN
        (IF v.s[1] = 1 THEN <<84, 114, 117, 101>> ELSE <<70, 97, 108, 115, 101>>)
    ELSE <<78, 111, 110, 101>>

\* truth value of a scalar, as tested by "if value:"
Truthy(v) ==
    IF v.t = "none" THEN FALSE
    ELSE IF v.t = "str" THEN v.s # <<>>
    ELSE IF v.t \in {"int", "bool"} THEN \E i \in 1..Len(v.s) : v.s[i] # 0
    ELSE v.items # <<>>

\* ---------------------------------------------------------------- settings

Settings(secret, fallbacks, saltIsList, saltStr, saltItems) ==
    [SECRET_KEY |-> secret, SECRET_KEY_FALLBACKS |-> fallbacks,
     SALT_KEY |-> [list |-> saltIsList, str |-> saltStr, items |-> saltItems]]

\* salt_keys of the keys property: a non-list SALT_KEY becomes a one-element list
SaltKeys(st) ==
    IF st.SALT_KEY.list THEN st.SALT_KEY.items ELSE <<st.SALT_KEY.str>>

\* secret_keys without the fallbacks: only the primary secret
SecretKeys_NoFallbacks(st) == <<st.SECRET_KEY>>

\* secret_keys of the keys property: the primary secret, then the fallbacks
SecretKeys(st) == <<st.SECRET_KEY>> \o st.SECRET_KEY_FALLBACKS

\* the inner loop of the keys property: one key per salt, appended in order
RECURSIVE SaltLoop(_, _, _)
SaltLoop(secret_key, salt_keys, ks) ==
    IF salt_keys = <<>> THEN ks
    ELSE SaltLoop(secret_key, Tail(salt_keys),
                  Append(ks, Derive(Utf8Encode(secret_key),
                                    Utf8Encode(Head(salt_keys)))))

\* the outer loop of the keys property, over the secrets
RECURSIVE SecretLoop(_, _, _)
SecretLoop(secret_keys, salt_keys, ks) ==
    IF secret_keys = <<>> THEN ks
    ELSE SecretLoop(Tail(secret_keys), salt_keys,
                    SaltLoop(Head(secret_keys), salt_keys, ks))

\* the loops the other way round: salts outer, secrets inner
KeysProperty_SaltsOuter(st) ==
    LET sec == SecretKeys(st)
        sal == SaltKeys(st)
    IN  [k \in 1..(Len(sec) * Len(sal)) |->
            Derive(Utf8Encode(sec[((k - 1) % Len(sec)) + 1]),
                   Utf8Encode(sal[((k - 1) \div Len(sec)) + 1]))]

\* EncryptedFieldMixin.keys, computed from the settings
KeysProperty(st) == SecretLoop(SecretKeys(st), SaltKeys(st), <<>>)

\* ------------------------------------------------------------------- codec

\* os.urandom(12): the k-th value the random source can return
Nonce(k) == [i \in 1..NonceLen |-> (k * 37 + i * 11) % 256]

\* encrypt_value that returns the ciphertext without the nonce in front
encrypt_value_NoNonce(ks, nonce, plaintext) ==
    B64Encode(GcmSeal(ks[1], nonce, Utf8Encode(plaintext)))

\* EncryptedFieldMixin.encrypt_value with the nonce it drew
encrypt_value(ks, nonce, plaintext) ==
    LET key == ks[1]
        ciphertext == GcmSeal(key, nonce, Utf8Encode(plaintext))
        encrypted == nonce \o ciphertext
    IN  B64Encode(encrypted)

\* the key loop of decrypt_value: the first key that opens the ciphertext
\* to valid UTF-8 returns; tried counts the keys attempted
RECURSIVE TryKeys(_, _, _, _)
TryKeys(ks, nonce, ciphertext, tried) ==
    IF ks = <<>> THEN [res |-> Raise("ValueError"), tried |-> tried]
    ELSE LET plaintext == GcmOpen(Head(ks), nonce, ciphertext)
             text == IF plaintext.ok THEN Utf8Decode(plaintext.val)
                     ELSE plaintext
         IN  IF text.ok THEN [res |-> text, tried |-> tried + 1]
             ELSE TryKeys(Tail(ks), nonce, ciphertext, tried + 1)

\* decrypt_value that returns its input when no key opens it
DecryptTrial_Swallow(ks, encrypted_value) ==
    LET encrypted == B64Decode(encrypted_value)
        r == TryKeys(ks, Take(encrypted.val, NonceLen),
                     Drop(encrypted.val, NonceLen), 0)
    IN  IF ~encrypted.ok THEN [res |-> Ok(encrypted_value), tried |-> 0]
        ELSE IF r.res.ok THEN r
        ELSE [res |-> Ok(encrypted_value), tried |-> r.tried]

\* EncryptedFieldMixin.decrypt_value, with the number of keys it tried
DecryptTrial(ks, encrypted_value) ==
    LET encrypted == B64Decode(encrypted_value)
    IN  IF ~encrypted.ok THEN [res |-> Ok(encrypted_value), tried |-> 0]
        ELSE TryKeys(ks, Take(encrypted.val, NonceLen),
                     Drop(encrypted.val, NonceLen), 0)

decrypt_value(ks, encrypted_value) == DecryptTrial(ks, encrypted_value).res

\* ---------------------------------------------------------- the JSON walk

RECURSIVE LeafCount(_)
LeafCount(v) ==
    IF v.t \in {"list", "dict"} THEN
        IF v.items = <<>> THEN 0
        ELSE LeafCount(Head(v.items)) + LeafCount([v EXCEPT !.items = Tail(v.items)])
    ELSE 1

\* EncryptedJSONField._encrypt_values; tape is the sequence of nonces
\* os.urandom returns during the walk, one per encrypt_value call. The
\* result is the transformed value and the rest of the tape.
RECURSIVE EncryptWalk(_, _, _)
RECURSIVE EncryptItems(_, _, _)
EncryptWalk(ks, value, tape) ==
    IF value.t = "dict" THEN
        LET r == EncryptItems(ks, value.items, tape)
        IN  [val |-> DictV(value.keys, r.val), tape |-> r.tape]
    ELSE IF value.t = "list" THEN
        LET r == EncryptItems(ks, value.items, tape)
        IN  [val |-> ListV(r.val), tape |-> r.tape]
    ELSE
        LET plain == Str(value)
        IN  [val |-> StrV(encrypt_value(ks, Head(tape), plain)), tape |-> Tail(tape)]

\* the comprehensions of _encrypt_values: the elements in order
EncryptItems(ks, items, tape) ==
    IF items = <<>> THEN [val |-> <<>>, tape |-> tape]
    ELSE LET h == EncryptWalk(ks, Head(items), tape)
             r == EncryptItems(ks, Tail(items), h.tape)
         IN  [val |-> <<h.val>> \o r.val, tape |-> r.tape]

_encrypt_values(ks, value, tape) == EncryptWalk(ks, value, tape).val

\* the scalar branch returning the stored value without decrypting it
DecryptLeaf_KeepsToken(ks, value) == RetV(value)

\* the scalar branch without its try / except
DecryptLeaf_Propagates(ks, value) ==
    LET r == decrypt_value(ks, Str(value))
    IN  IF r.ok THEN RetV(StrV(r.val)) ELSE RaiseV(r.exc)

\* the scalar branch of _decrypt_values: try decrypt_value(str(value)) and
\* return the value as it is when that raises
DecryptLeaf(ks, value) ==
    LET r == decrypt_value(ks, Str(value))
    IN  IF r.ok THEN RetV(StrV(r.val)) ELSE RetV(value)

\* EncryptedJSONField._decrypt_values: the value returned or the exception
\* that left the walk (an exception raised for one element leaves the
\* comprehension it was raised in)
RECURSIVE _decrypt_values(_, _)
RECURSIVE DecryptItems(_, _)
_decrypt_values(ks, value) ==
    IF value.t = "none" THEN RetV(value)
    ELSE IF value.t = "dict" THEN
        LET r == DecryptItems(ks, value.items)
        IN  IF r.ok THEN RetV(DictV(value.keys, r.val)) ELSE RaiseV(r.exc)
    ELSE IF value.t = "list" THEN
        LET r == DecryptItems(ks, value.items)
        IN  IF r.ok THEN RetV(ListV(r.val)) ELSE RaiseV(r.exc)
    ELSE DecryptLeaf(ks, value)

\* the comprehensions of _decrypt_values
DecryptItems(ks, items) ==
    IF items = <<>> THEN Ok(<<>>)
    ELSE LET h == _decrypt_values(ks, Head(items))
         IN  IF ~h.ok THEN Raise(h.exc)
             ELSE LET r == DecryptItems(ks, Tail(items))
                  IN  IF ~r.ok THEN r ELSE Ok(<<h.val>> \o r.val)

\* ------------------------------------------------------- the scalar fields

\* models.Field.get_prep_value of the base class: the value itself
SuperGetPrepValue(value) == value

\* EncryptedFieldMixin.get_prep_value with the nonce encrypt_value drew
get_prep_value(ks, nonce, v) ==
    LET value == SuperGetPrepValue(v)
    IN  IF Truthy(value) THEN
            StrV(encrypt_value(ks, nonce,
                               IF value.t # "str" THEN Str(value) ELSE value.s))
        ELSE None_

\* EncryptedFieldMixin.get_db_prep_value
get_db_prep_value(ks, nonce, value, prepared) ==
    IF ~prepared THEN get_prep_value(ks, nonce, value) ELSE value

\* to_python of the base class (CharField / TextField): a str stays as it is
SuperToPython(value) == IF value.t = "str" THEN value ELSE StrV(Str(value))

\* EncryptedFieldMixin.to_python; marker is hasattr(self, "_already_decrypted")
to_python(ks, marker, value) ==
    IF value.t = "none" \/ value.t # "str" \/ marker THEN value
    ELSE LET r == decrypt_value(ks, value.s)
             decrypted_value == IF r.ok THEN StrV(r.val) ELSE value
         IN  SuperToPython(decrypted_value)

\* ------------------------------------------------------------------ inputs

T_empty == <<>>
\* "hi"
T_hi == <<104, 105>>
\* e-acute and the euro sign: 2 and 3 bytes of UTF-8
T_euro == <<233, 8364>>
\* "abcd": base64 of 3 bytes
T_abcd == <<97, 98, 99, 100>>
\* "hello": 5 base64 characters, a group left open
T_hello == <<104, 101, 108, 108, 111>>
\* "not base64 at all!!"
T_notb64 == <<110, 111, 116, 32, 98, 97, 115, 101, 54, 52, 32, 97, 116, 32,
              97, 108, 108, 33, 33>>
\* "1234567890123456": base64 of exactly 12 bytes
T_digits16 == <<49, 50, 51, 52, 53, 54, 55, 56, 57, 48, 49, 50, 51, 52, 53, 54>>
\* the int 1234567890123456
I_digits16 == <<1, 2, 3, 4, 5, 6, 7, 8, 9, 0, 1, 2, 3, 4, 5, 6>>

\* secrets "old", "new" and "zzz"
S_old == <<111, 108, 100>>
S_new == <<110, 101, 119>>
S_zzz == <<122, 122, 122>>
\* salts "a", "b", "c"
Salt_a == <<97>>
Salt_b == <<98>>
Salt_c == <<99>>
\* dict keys "k1", "k2"
K_1 == <<107, 49>>
K_2 == <<107, 50>>

\* A: one secret, SALT_KEY a plain string
ConfigA == Settings(S_old, <<>>, FALSE, Salt_a, <<>>)
\* B: A rotated, the old secret kept as a fallback
ConfigB == Settings(S_new, <<S_old>>, FALSE, Salt_a, <<>>)
\* C: A rotated, the old secret dropped
ConfigC == Settings(S_new, <<>>, FALSE, Salt_a, <<>>)
\* D: two secrets and three salts
ConfigD == Settings(S_old, <<S_new>>, TRUE, <<>>, <<Salt_a, Salt_b, Salt_c>>)
\* E: D rotated, the old secret the last fallback
ConfigE == Settings(S_new, <<S_zzz, S_old>>, TRUE, <<>>, <<Salt_a, Salt_b, Salt_c>>)
NamedConfigs == {ConfigA, ConfigB, ConfigC, ConfigD, ConfigE}

Secrets == {S_old, S_new}
Salts == {Salt_a, Salt_b, Salt_c}
SeqsUpTo(S, lo, hi) == UNION {[1..n -> S] : n \in lo..hi}
\* every configuration of at most MaxFallbacks fallbacks and MaxSalts salts
GenConfigs ==
    {Settings(p, f, FALSE, a, <<>>) :
        p \in Secrets, f \in SeqsUpTo(Secrets, 0, MaxFallbacks), a \in Salts}
    \cup {Settings(p, f, TRUE, <<>>, l) :
        p \in Secrets, f \in SeqsUpTo(Secrets, 0, MaxFallbacks),
        l \in SeqsUpTo(Salts, 1, MaxSalts)}

Plaintexts == {T_empty, T_hi, T_euro, T_abcd}
ScalarValues ==
    {None_, StrV(T_empty), StrV(T_hi), IntV(<<0>>), IntV(<<1, 2, 3, 4>>),
     BoolV(FALSE), BoolV(TRUE)}
\* a token sealed under the secret "zzz" and the salt "b"
ForeignToken ==
    StrV(encrypt_value(<<Derive(Utf8Encode(S_zzz), Utf8Encode(Salt_b))>>, Nonce(1), T_hi))

\* texts a column can hold that this process did not write
LegacyTexts == {T_empty, T_abcd, T_hello, T_notb64, T_digits16, ForeignToken.s}

\* documents handed to the JSON field for writing
Docs ==
    {None_, StrV(T_hi), ListV(<<>>),
     ListV(<<StrV(T_euro), IntV(<<1, 2, 3, 4>>)>>),
     DictV(<<K_1, K_2>>, <<StrV(T_empty), ListV(<<BoolV(TRUE), None_>>)>>),
     DictV(<<K_1>>, <<DictV(<<K_2>>, <<ListV(<<IntV(<<0>>)>>)>>)>>)}

\* a token written to a JSON column while configuration A was in force
OldToken == StrV(encrypt_value(KeysProperty(ConfigA), Nonce(1), T_hi))

\* documents a JSON column can hold: tokens written earlier, legacy plaintext
\* leaves, numbers, nulls and tokens of foreign origin
StoredDocs ==
    {None_, OldToken,
     ListV(<<OldToken, StrV(T_notb64)>>),
     ListV(<<ForeignToken, OldToken>>),
     ListV(<<IntV(I_digits16), OldToken, StrV(T_digits16)>>),
     DictV(<<K_1, K_2>>,
           <<IntV(<<1, 2, 3, 4>>), ListV(<<OldToken, None_, BoolV(TRUE)>>)>>)}

\* ------------------------------------------------------------------- state

VARIABLES
    settings,            \* django.conf.settings of the running process
    keys,                \* the cached keys property, <<>> before first use
    already_decrypted,   \* hasattr(self, "_already_decrypted")
    stored,              \* the database column and how its value was made
    last                 \* the last call: its arguments and what it returned

vars == <<settings, keys, already_decrypted, stored, last>>

\* a call: op(arg) returned or raised res. flag is the prepared argument of
\* get_db_prep_value, the marker seen by to_python, the validators' verdict
\* in clean; tried is the number of keys decrypt_value tried; orig is the
\* document whose encryption arg is, when _decrypt_values reads back what
\* _encrypt_values just returned.
NoCall ==
    [op |-> "none", arg |-> None_, flag |-> FALSE, res |-> RetV(None_),
     tried |-> 0, orig |-> None_]
Call(op, arg, flag, res, tried) ==
    [op |-> op, arg |-> arg, flag |-> flag, res |-> res, tried |-> tried,
     orig |-> None_]

NoStored == [val |-> None_, op |-> "none", arg |-> None_, by |-> ConfigA]

\* self.keys: the cached list, or the list computed now from the settings
SelfKeys == IF keys = <<>> THEN KeysProperty(settings) ELSE keys

Init ==
    /\ settings \in NamedConfigs
    /\ keys = <<>>
    /\ already_decrypted = FALSE
    /\ stored = NoStored
    /\ last = NoCall

\* a new process with a new configuration: fields are built again, nothing
\* is cached, the database stays
Restart(c) ==
    /\ settings' = c
    /\ keys' = <<>>
    /\ already_decrypted' = FALSE
    /\ last' = NoCall
    /\ UNCHANGED stored

\* first read of the keys property
KeysAccess ==
    /\ keys = <<>>
    /\ keys' = SelfKeys
    /\ last' = NoCall
    /\ UNCHANGED <<settings, already_decrypted, stored>>

EncryptValue(p, n) ==
    /\ keys' = SelfKeys
    /\ last' = Call("encrypt_value", StrV(p), FALSE,
                    RetV(StrV(encrypt_value(SelfKeys, Nonce(n), p))), 0)
    /\ UNCHANGED <<settings, already_decrypted, stored>>

DecryptValue(t) ==
    LET r == DecryptTrial(SelfKeys, t)
    IN  /\ keys' = IF B64Decode(t).ok THEN SelfKeys ELSE keys
        /\ last' = Call("decrypt_value", StrV(t), FALSE,
                        IF r.res.ok THEN RetV(StrV(r.res.val)) ELSE RaiseV(r.res.exc),
                        r.tried)
        /\ UNCHANGED <<settings, already_decrypted, stored>>

GetDbPrepValue(v, prepared, n) ==
    /\ keys' = IF ~prepared /\ Truthy(SuperGetPrepValue(v)) THEN SelfKeys ELSE keys
    /\ last' = Call("get_db_prep_value", v, prepared,
                    RetV(get_db_prep_value(SelfKeys, Nonce(n), v, prepared)), 0)
    /\ UNCHANGED <<settings, already_decrypted, stored>>

\* the caller persists what encrypt_value or get_db_prep_value returned
Save ==
    /\ last.op \in {"encrypt_value", "get_db_prep_value"}
    /\ stored' = [val |-> last.res.val, op |-> last.op, arg |-> last.arg,
                  by |-> settings]
    /\ UNCHANGED <<settings, keys, already_decrypted, last>>

\* to_python, also reached through from_db_value
ToPython(v) ==
    /\ keys' = IF v.t = "str" /\ ~already_decrypted /\ B64Decode(v.s).ok
               THEN SelfKeys ELSE keys
    /\ last' = Call("to_python", v, already_decrypted,
                    RetV(to_python(SelfKeys, already_decrypted, v)), 0)
    /\ UNCHANGED <<settings, already_decrypted, stored>>

\* clean: the marker is set, the base clean runs (it calls to_python and the
\* validators, which accept the value or raise ValidationError), and the
\* marker is deleted on the way out of a normal return
Clean(v, valid) ==
    /\ last' = Call("clean", v, valid,
                    IF valid THEN RetV(to_python(SelfKeys, TRUE, v))
                    ELSE RaiseV("ValidationError"), 0)
    /\ already_decrypted' = IF valid THEN FALSE ELSE TRUE
    /\ UNCHANGED <<settings, keys, stored>>

EncryptValues(doc, tape) ==
    /\ keys' = IF LeafCount(doc) > 0 THEN SelfKeys ELSE keys
    /\ last' = Call("_encrypt_values", doc, FALSE,
                    RetV(_encrypt_values(SelfKeys, doc, [i \in DOMAIN tape |-> Nonce(tape[i])])), 0)
    /\ UNCHANGED <<settings, already_decrypted, stored>>

\* whether the decrypt walk of a document reaches the key loop
RECURSIVE WalkUsesKeys(_)
WalkUsesKeys(v) ==
    IF v.t = "none" THEN FALSE
    ELSE IF v.t \in {"list", "dict"} THEN
        \E i \in 1..Len(v.items) : WalkUsesKeys(v.items[i])
    ELSE B64Decode(Str(v)).ok

DecryptValues(doc, readBack, orig) ==
    /\ keys' = IF WalkUsesKeys(doc) THEN SelfKeys ELSE keys
    /\ last' = [Call("_decrypt_values", doc, readBack,
                     _decrypt_values(SelfKeys, doc), 0) EXCEPT !.orig = orig]
    /\ UNCHANGED <<settings, already_decrypted, stored>>

\* what the column holds, as read back
StoredTexts == IF stored.val.t = "str" THEN {stored.val.s} ELSE {}
\* values a form or a caller hands to to_python and clean
FormValues == {None_, StrV(T_hi), IntV(<<1, 2, 3, 4>>)}

\* the envelope codec: tokens are written, the configuration is rotated,
\* the column is read back
Next ==
    \/ \E c \in NamedConfigs : Restart(c)
    \/ \E p \in Plaintexts, n \in 1..NumNonces : EncryptValue(p, n)
    \/ Save
    \/ \E t \in LegacyTexts \cup StoredTexts : DecryptValue(t)

Spec == Init /\ [][Next]_vars

\* the scalar field: values are written, read back and cleaned
NextField ==
    \/ \E v \in ScalarValues, prepared \in BOOLEAN, n \in 1..NumNonces :
          GetDbPrepValue(v, prepared, n)
    \/ Save
    \/ \E v \in FormValues \cup {stored.val} : ToPython(v)
    \/ \E v \in FormValues \cup {stored.val}, valid \in BOOLEAN : Clean(v, valid)

SpecField == Init /\ [][NextField]_vars

\* the JSON field: documents are walked for writing and for reading
NextJson ==
    \/ \E doc \in Docs : \E tape \in [1..LeafCount(doc) -> 1..NumNonces] :
          EncryptValues(doc, tape)
    \/ \E doc \in StoredDocs : DecryptValues(doc, FALSE, None_)
    \/ /\ last.op = "_encrypt_values"
       /\ DecryptValues(last.res.val, TRUE, last.arg)

SpecJson == Init /\ [][NextJson]_vars

\* the key list alone, over every generated configuration
InitKeys ==
    /\ settings \in GenConfigs
    /\ keys = <<>>
    /\ already_decrypted = FALSE
    /\ stored = NoStored
    /\ last = NoCall

NextKeys == KeysAccess

SpecKeys == InitKeys /\ [][NextKeys]_vars

\* ------------------------------------------------------------------ claims

\* the decoded bytes of a text that base64-decodes
Decoded(t) == B64Decode(t).val
\* the elements of a sequence
Range(q) == {q[i] : i \in 1..Len(q)}

\* C1: decrypt_value(encrypt_value(p)) returns exactly p and raises nothing,
\* for every text p (the empty one included), every configuration and every
\* nonce: both for the token encrypt_value has just returned and for the
\* token read back from the column under the configuration that wrote it.
C1_RoundTrip ==
    /\ last.op = "encrypt_value" =>
          decrypt_value(SelfKeys, last.res.val.s) = Ok(last.arg.s)
    /\ (last.op = "decrypt_value" /\ stored.op = "encrypt_value"
          /\ last.arg = stored.val /\ stored.by = settings) =>
          last.res = RetV(stored.arg)

\* the empty string, written under two secrets and three salts, read back
C1_Witness ==
    /\ last.op = "decrypt_value" /\ stored.op = "encrypt_value"
    /\ last.arg = stored.val /\ stored.by = settings
    /\ settings = ConfigD
    /\ stored.arg = StrV(T_empty)
    /\ last.res = RetV(StrV(T_empty))

\* C2: when URL-safe base64 decoding of the input fails, or succeeds with
\* fewer than 12 bytes, decrypt_value returns the input unchanged, raises
\* nothing and tries no key.
C2_Passthrough ==
    (last.op = "decrypt_value"
       /\ (~B64Decode(last.arg.s).ok \/ Len(Decoded(last.arg.s)) < NonceLen)) =>
    (last.res = RetV(last.arg) /\ last.tried = 0)

\* C3: a token written by encrypt_value under a configuration whose primary
\* secret is now among the fallbacks, the salts being the same, decrypts to
\* its plaintext; and every token encrypt_value returns opens under the key
\* derived from the primary secret and the first salt.
C3_KeyRotation ==
    /\ (stored.op = "encrypt_value"
          /\ stored.by.SECRET_KEY \in Range(settings.SECRET_KEY_FALLBACKS)
          /\ stored.by.SALT_KEY = settings.SALT_KEY) =>
          decrypt_value(SelfKeys, stored.val.s) = Ok(stored.arg.s)
    /\ last.op = "encrypt_value" =>
          LET d == Decoded(last.res.val.s)
              salt0 == IF settings.SALT_KEY.list THEN settings.SALT_KEY.items[1]
                       ELSE settings.SALT_KEY.str
              active == Derive(Utf8Encode(settings.SECRET_KEY), Utf8Encode(salt0))
          IN  /\ SelfKeys[1] = active
              /\ GcmOpen(active, Take(d, NonceLen), Drop(d, NonceLen))
                    = Ok(Utf8Encode(last.arg.s))

\* a token of configuration D read under E, where the secret of D is the
\* last fallback: the seventh key opens it
C3_Witness ==
    /\ stored.op = "encrypt_value" /\ stored.by = ConfigD /\ settings = ConfigE
    /\ last.op = "decrypt_value" /\ last.arg = stored.val
    /\ last.res = RetV(stored.arg)
    /\ last.tried = 7

\* C4: when the input decodes to at least the 12 bytes of a nonce and no
\* configured key opens the rest, decrypt_value raises ValueError after
\* trying every key; it returns nothing.
C4_KeyExhaustion ==
    (last.op = "decrypt_value" /\ B64Decode(last.arg.s).ok
       /\ Len(Decoded(last.arg.s)) >= NonceLen
       /\ \A i \in 1..Len(SelfKeys) :
             ~GcmOpen(SelfKeys[i], Take(Decoded(last.arg.s), NonceLen),
                      Drop(Decoded(last.arg.s), NonceLen)).ok) =>
    (last.res = RaiseV("ValueError") /\ last.tried = Len(SelfKeys))

\* a token of configuration A read under C, which dropped the secret of A
C4_Witness ==
    /\ stored.op = "encrypt_value" /\ stored.by = ConfigA /\ settings = ConfigC
    /\ last.op = "decrypt_value" /\ last.arg = stored.val
    /\ last.res = RaiseV("ValueError")

\* C5: the key list has |secrets| x |salts| entries and the entry for secret
\* i and salt j (counted from 1) is at (i - 1) * |salts| + j: secrets outer,
\* salts inner; a SALT_KEY that is not a list counts as a list of one.
C5_KeyListShape ==
    keys # <<>> =>
    LET sec == <<settings.SECRET_KEY>> \o settings.SECRET_KEY_FALLBACKS
        sal == IF settings.SALT_KEY.list THEN settings.SALT_KEY.items
               ELSE <<settings.SALT_KEY.str>>
    IN  /\ Len(keys) = Len(sec) * Len(sal)
        /\ \A i \in 1..Len(sec), j \in 1..Len(sal) :
              keys[(i - 1) * Len(sal) + j]
                 = Derive(Utf8Encode(sec[i]), Utf8Encode(sal[j]))

\* two different secrets and three salts: six keys
C5_Witness ==
    /\ keys # <<>> /\ Len(keys) = 6
    /\ settings.SALT_KEY.list /\ Len(settings.SALT_KEY.items) = 3
    /\ Len(settings.SECRET_KEY_FALLBACKS) = 1
    /\ settings.SECRET_KEY_FALLBACKS[1] # settings.SECRET_KEY

\* the document with every scalar leaf replaced by its text, shape kept
RECURSIVE TextOf(_)
TextOf(doc) ==
    IF doc.t \in {"list", "dict"} THEN
        [doc EXCEPT !.items = [i \in 1..Len(doc.items) |-> TextOf(doc.items[i])]]
    ELSE StrV(Str(doc))

\* C6: _decrypt_values(_encrypt_values(doc)) has the shape of doc (keys,
\* lengths, order, nesting) and each leaf is str(leaf) of the leaf of doc.
C6_StructuralFidelity ==
    /\ last.op = "_encrypt_values" =>
          _decrypt_values(SelfKeys, last.res.val) = RetV(TextOf(last.arg))
    /\ (last.op = "_decrypt_values" /\ last.flag) =>
          last.res = RetV(TextOf(last.orig))

\* a mapping holding a text and a sequence, written and read back
C6_Witness ==
    /\ last.op = "_decrypt_values" /\ last.flag
    /\ last.orig = DictV(<<K_1, K_2>>, <<StrV(T_empty), ListV(<<BoolV(TRUE), None_>>)>>)
    /\ last.res.ok
    /\ last.res.val.keys = <<K_1, K_2>>
    /\ last.res.val.items[1] = StrV(T_empty)
    /\ last.res.val.items[2].items[1] = StrV(<<84, 114, 117, 101>>)

\* wherever a is null, r is null too
RECURSIVE NullsKept(_, _)
NullsKept(a, r) ==
    IF a.t = "none" THEN r.t = "none"
    ELSE IF a.t \in {"list", "dict"} THEN
        /\ r.t = a.t
        /\ Len(r.items) = Len(a.items)
        /\ \A i \in 1..Len(a.items) : NullsKept(a.items[i], r.items[i])
    ELSE TRUE

\* C7: a null, the whole document or a leaf at any depth, is still null
\* after the encrypt walk and after the decrypt walk.
C7_NullPreserved ==
    last.op \in {"_encrypt_values", "_decrypt_values"} =>
    (last.res.ok /\ NullsKept(last.arg, last.res.val))

\* C8: for every value v that is not None, get_db_prep_value with
\* prepared=False returns a token that decrypt_value turns into str(v);
\* the empty string, 0 and False included.
C8_ScalarWrite ==
    (last.op = "get_db_prep_value" /\ ~last.flag /\ last.arg.t # "none") =>
    (/\ last.res.ok
     /\ last.res.val.t = "str"
     /\ decrypt_value(SelfKeys, last.res.val.s) = Ok(Str(last.arg)))

\* a stored document a and what the decrypt walk makes of it, r: the shape
\* is the same, a null stays, a leaf that decrypt_value opens becomes its
\* plaintext; a leaf on which decrypt_value raises becomes its text
\* (asText) or stays the value it was
RECURSIVE WalkRel(_, _, _, _)
WalkRel(ks, a, r, asText) ==
    IF a.t = "none" THEN r = a
    ELSE IF a.t \in {"list", "dict"} THEN
        /\ r.t = a.t /\ r.keys = a.keys /\ r.s = a.s
        /\ Len(r.items) = Len(a.items)
        /\ \A i \in 1..Len(a.items) : WalkRel(ks, a.items[i], r.items[i], asText)
    ELSE IF decrypt_value(ks, Str(a)).ok THEN r = StrV(decrypt_value(ks, Str(a)).val)
    ELSE r = IF asText THEN StrV(Str(a)) ELSE a

\* C9, as stated: a leaf on which decrypt_value raises is replaced by its
\* undecrypted text; nothing is raised, the other leaves are decrypted and
\* the shape is kept.
C9_LeafKeptAsText ==
    last.op = "_decrypt_values" =>
    (last.res.ok /\ WalkRel(SelfKeys, last.arg, last.res.val, TRUE))

\* C9, amended: a leaf on which decrypt_value raises is left as the value
\* it was, a number still a number; nothing is raised, the other leaves
\* are decrypted and the shape is kept.
C9_LeafKeptAsValue ==
    last.op = "_decrypt_values" =>
    (last.res.ok /\ WalkRel(SelfKeys, last.arg, last.res.val, FALSE))

\* a sequence of a 16-digit number, a token and a 16-digit text, read while
\* the token's secret is a fallback: both outer leaves fail and stay, the
\* token is decrypted
C9_Witness ==
    /\ last.op = "_decrypt_values" /\ settings = ConfigB
    /\ last.arg = ListV(<<IntV(I_digits16), OldToken, StrV(T_digits16)>>)
    /\ ~decrypt_value(SelfKeys, Str(IntV(I_digits16))).ok
    /\ last.res = RetV(ListV(<<IntV(I_digits16), StrV(T_hi), StrV(T_digits16)>>))

\* C10: between calls the marker is absent, also after a clean whose
\* validation raised, so to_python of a stored token returns its plaintext.
C10_MarkerTransient ==
    /\ ~already_decrypted
    /\ (last.op = "to_python" /\ last.arg.t = "str"
          /\ decrypt_value(SelfKeys, last.arg.s).ok) =>
          last.res = RetV(StrV(decrypt_value(SelfKeys, last.arg.s).val))

====
